---- MODULE Spec2Model ----
(***************************************************************************)
(* Model of the two command-line tools of ayy-subdomain-redirect:         *)
(*   subdomain-linter.py  validates a folder of YAML redirect definitions  *)
(*   dns-checker.py       checks the DNS records of the listed subdomains  *)
(***************************************************************************)
EXTENDS Integers, Sequences, FiniteSets, TLC

VARIABLES
    \* subdomain-linter.py, main()
    folder,              \* os.listdir(args.folder): the files, in listing order
    idx,                 \* position of the for loop of main in the listing
    linting_errors,      \* main: linting_errors
    keys_and_filename,   \* main: keys_and_filename
    pc,                  \* "loop", "report", "done", "crashed", "idle"
    stdout,              \* what main has printed
    exit_status          \* process exit status, -1 while running

VARIABLES
    \* check_no_duplicate_keys called on its own
    pairs_arg,           \* the argument keys_and_filename
    dup_called,          \* whether the call has been made
    dup_outcome          \* what the call did

VARIABLES
    \* dns-checker.py, the __main__ block
    dns_pc,              \* "resolve", "load", "check", "print", "done", "crashed", "idle"
    target_ipv4_address, \* answer of the A query for TARGET_HOSTNAME
    target_ipv6_address, \* answer of the AAAA query for TARGET_HOSTNAME
    subdomains,          \* load_subdomains()
    results,             \* the CheckResult list
    last_queries,        \* what the resolver did for the subdomain checked last
    dns_stdout           \* what the tool has printed

lintVars == <<folder, idx, linting_errors, keys_and_filename, pc, stdout, exit_status>>
dupVars  == <<pairs_arg, dup_called, dup_outcome>>
dnsVars  == <<dns_pc, target_ipv4_address, target_ipv6_address, subdomains, results,
              last_queries, dns_stdout>>

vars == <<folder, idx, linting_errors, keys_and_filename, pc, stdout, exit_status,
          pairs_arg, dup_called, dup_outcome,
          dns_pc, target_ipv4_address, target_ipv6_address, subdomains, results,
          last_queries, dns_stdout>>

----------------------------------------------------------------------------
(* Python values as yaml.safe_load produces them.  A str is a TLA+ string, *)
(* a list a sequence of values, a dict a sequence of <<key, value>> items  *)
(* in insertion order with pairwise different keys.                        *)

Str(s)   == [t |-> "str",  v |-> s]
PyInt(n) == [t |-> "int",  v |-> n]
Bool(b)  == [t |-> "bool", v |-> b]
List(l)  == [t |-> "list", v |-> l]
Dict(d)  == [t |-> "dict", v |-> d]
None     == [t |-> "none", v |-> "None"]

\* str.endswith / str.startswith
EndsWith(s, suffix) ==
    /\ Len(s) >= Len(suffix)
    /\ SubSeq(s, Len(s) - Len(suffix) + 1, Len(s)) = suffix

StartsWith(s, prefix) ==
    /\ Len(s) >= Len(prefix)
    /\ SubSeq(s, 1, Len(prefix)) = prefix

\* key in d, d[key] for a dict given as its item sequence
HasKey(items, key) == \E n \in 1..Len(items) : items[n][1] = key
GetItem(items, key) ==
    items[CHOOSE n \in 1..Len(items) : items[n][1] = key][2]

----------------------------------------------------------------------------
(* subdomain-linter.py *)

SUBDOMAIN_VALUE_SCHEMA ==
    << [key |-> "redirect_from", type |-> "list", required |-> TRUE],
       [key |-> "redirect_to",   type |-> "str",  required |-> TRUE],
       [key |-> "include_path",  type |-> "bool", required |-> FALSE],
       [key |-> "permanent",     type |-> "bool", required |-> FALSE] >>

InSchema(key) ==
    /\ key.t = "str"
    /\ \E n \in 1..Len(SUBDOMAIN_VALUE_SCHEMA) : SUBDOMAIN_VALUE_SCHEMA[n].key = key.v

SchemaType(key) ==
    SUBDOMAIN_VALUE_SCHEMA[
        CHOOSE n \in 1..Len(SUBDOMAIN_VALUE_SCHEMA) :
            SUBDOMAIN_VALUE_SCHEMA[n].key = key.v].type

\* Outcome of a check: it returns, raises LintError (tag names the message),
\* or raises another exception, which nothing in main catches.
Passed      == [res |-> "ok",    tag |-> "none"]
Lint(tag)   == [res |-> "lint",  tag |-> tag]
Crash(exc)  == [res |-> "crash", tag |-> exc]

\* A file of the folder: its name, whether its text is well-formed YAML, and
\* the document yaml.safe_load returns for it.
check_yaml_format(file) ==
    IF file.syntax_ok THEN Passed ELSE Lint("yaml")

RECURSIVE KeysAreStrings(_, _)
KeysAreStrings(items, n) ==
    IF n > Len(items) THEN Passed
    ELSE IF items[n][1].t # "str" THEN Lint("key_not_string")
    ELSE KeysAreStrings(items, n + 1)

RECURSIVE ValueItemsValid(_, _)
ValueItemsValid(items, n) ==
    IF n > Len(items) THEN Passed
    ELSE IF ~InSchema(items[n][1]) THEN Lint("not_valid_key")
    ELSE IF items[n][2].t # SchemaType(items[n][1]) THEN Lint("wrong_type")
    ELSE ValueItemsValid(items, n + 1)

RECURSIVE RequiredKeysPresent(_, _)
RequiredKeysPresent(items, n) ==
    IF n > Len(SUBDOMAIN_VALUE_SCHEMA) THEN Passed
    ELSE IF /\ SUBDOMAIN_VALUE_SCHEMA[n].required
            /\ ~HasKey(items, Str(SUBDOMAIN_VALUE_SCHEMA[n].key))
         THEN Lint("required")
    ELSE RequiredKeysPresent(items, n + 1)

\* Variant: only the first entry of redirect_from is looked at.
RedirectFromSuffixes_FirstOnly(entries, n) ==
    IF n > Len(entries) THEN Passed
    ELSE IF entries[n].t # "str" THEN Crash("AttributeError")
    ELSE IF /\ ~EndsWith(entries[n].v, ".ayy.fi")
            /\ ~EndsWith(entries[n].v, ".otax.fi")
         THEN Lint("suffix")
    ELSE Passed

RECURSIVE RedirectFromSuffixes(_, _)
RedirectFromSuffixes(entries, n) ==
    IF n > Len(entries) THEN Passed
    ELSE IF entries[n].t # "str" THEN Crash("AttributeError")
    ELSE IF /\ ~EndsWith(entries[n].v, ".ayy.fi")
            /\ ~EndsWith(entries[n].v, ".otax.fi")
         THEN Lint("suffix")
    ELSE RedirectFromSuffixes(entries, n + 1)

RedirectToIsUrl(redirect_to) ==
    IF ~StartsWith(redirect_to.v, "http") THEN Lint("url") ELSE Passed

\* Variant: redirect_to is checked before the redirect_from entries.
CheckSubdomainValue_UrlFirst(subdomain_value) ==
    IF subdomain_value.t # "dict" THEN Crash("AttributeError")
    ELSE LET items == subdomain_value.v
             fields == ValueItemsValid(items, 1)
             required == RequiredKeysPresent(items, 1)
             url == RedirectToIsUrl(GetItem(items, Str("redirect_to")))
         IN  IF fields # Passed THEN fields
             ELSE IF required # Passed THEN required
             ELSE IF url # Passed THEN url
             ELSE RedirectFromSuffixes(GetItem(items, Str("redirect_from")).v, 1)

\* The body of the loop over subdomain_keys for one subdomain_value.
CheckSubdomainValue(subdomain_value) ==
    IF subdomain_value.t # "dict" THEN Crash("AttributeError")
    ELSE LET items == subdomain_value.v
             fields == ValueItemsValid(items, 1)
             required == RequiredKeysPresent(items, 1)
             suffixes == RedirectFromSuffixes(GetItem(items, Str("redirect_from")).v, 1)
         IN  IF fields # Passed THEN fields
             ELSE IF required # Passed THEN required
             ELSE IF suffixes # Passed THEN suffixes
             ELSE RedirectToIsUrl(GetItem(items, Str("redirect_to")))

RECURSIVE CheckSubdomainValues(_, _)
CheckSubdomainValues(items, n) ==
    IF n > Len(items) THEN Passed
    ELSE LET r == CheckSubdomainValue(items[n][2])
         IN  IF r # Passed THEN r ELSE CheckSubdomainValues(items, n + 1)

check_business_rules(file) ==
    IF ~file.syntax_ok THEN Crash("YAMLError")
    ELSE LET subdomain == file.doc
         IN  IF subdomain.t # "dict" THEN Lint("not_dict")
             ELSE IF Len(subdomain.v) = 0 THEN Lint("no_keys")
             ELSE IF KeysAreStrings(subdomain.v, 1) # Passed
                  THEN KeysAreStrings(subdomain.v, 1)
             ELSE CheckSubdomainValues(subdomain.v, 1)

get_subdomain_key(file) == file.doc.v[1][1]

\* count of key in the list keys
Count(keys, key) == Cardinality({n \in 1..Len(keys) : keys[n] = key})

\* Variant: a key counts as duplicated from its third occurrence on.
check_no_duplicate_keys_Third(pairs) ==
    LET keys == [n \in 1..Len(pairs) |-> pairs[n][1]]
        duplicate_keys == {keys[n] : n \in {m \in 1..Len(keys) : Count(keys, keys[m]) > 2}}
        IsDuplicate(p) == p[1] \in duplicate_keys
        selected == SelectSeq(pairs, IsDuplicate)
        files_with_duplicate_keys == [n \in 1..Len(selected) |-> selected[n][2]]
    IN  [raised |-> duplicate_keys # {},
         duplicate_keys |-> duplicate_keys,
         files |-> files_with_duplicate_keys]

check_no_duplicate_keys(pairs) ==
    LET keys == [n \in 1..Len(pairs) |-> pairs[n][1]]
        duplicate_keys == {keys[n] : n \in {m \in 1..Len(keys) : Count(keys, keys[m]) > 1}}
        IsDuplicate(p) == p[1] \in duplicate_keys
        selected == SelectSeq(pairs, IsDuplicate)
        files_with_duplicate_keys == [n \in 1..Len(selected) |-> selected[n][2]]
    IN  [raised |-> duplicate_keys # {},
         duplicate_keys |-> duplicate_keys,
         files |-> files_with_duplicate_keys]

----------------------------------------------------------------------------
(* The files the linter is run on *)

MaxFiles   == 3      \* files in a folder of several files
MaxRecords == 2      \* top-level keys of a generated document

Absent == [t |-> "absent", v |-> "absent"]

Field(key, value) == IF value = Absent THEN <<>> ELSE << <<Str(key), value>> >>

RedirectFromOptions ==
    { Absent,
      Str("a.ayy.fi"),
      List(<<Str("a.ayy.fi")>>),
      List(<<Str("a.example.com")>>),
      List(<<Str("b.otax.fi"), Str("ayy.fi")>>),
      List(<<PyInt(5)>>) }

RedirectToOptions == { Absent, Str("https://example.com"), Str("ftp://example.com") }

OtherFieldOptions ==
    { <<>>,
      << <<Str("redirect"), Str("https://example.com")>> >> }

SubdomainValues ==
    { Dict(Field("redirect_from", rf) \o Field("redirect_to", rt) \o other) :
        rf \in RedirectFromOptions, rt \in RedirectToOptions, other \in OtherFieldOptions }
    \cup { PyInt(5) }

\* The n-th top-level key of a generated document: a string, or an int when
\* the document is to have a last key that is not a string.
KeyAt(n, nonstr) == IF n = nonstr THEN PyInt(n) ELSE Str("k" \o ToString(n))

Document(values, intkey) ==
    Dict([n \in 1..Len(values) |->
            <<KeyAt(n, IF intkey THEN Len(values) ELSE 0), values[n]>>])

YamlFile(ext, doc) == [ext |-> ext, syntax_ok |-> TRUE, doc |-> doc]

\* Further files a one-file folder can hold.
OtherFiles ==
          { YamlFile(".yml", Dict(<<>>)), YamlFile(".yaml", None),
           YamlFile(".yml", Dict(<< <<Str("k1"),
               Dict(<< <<Str("redirect_from"), List(<<>>)>>,
                       <<Str("redirect_to"), Str("http://example.com")>>,
                       <<Str("include_path"), Bool(TRUE)>>,
                       <<Str("permanent"), Bool(FALSE)>> >>)>> >>)),
           YamlFile(".yml", Dict(<< <<Str("k1"),
               Dict(<< <<Str("redirect_from"), List(<<Str("a.ayy.fi")>>)>>,
                       <<Str("redirect_to"), PyInt(5)>> >>)>> >>)),
           YamlFile(".yml", Dict(<< <<Str("k1"),
               Dict(<< <<Str("redirect_from"), List(<<Str("a.ayy.fi")>>)>>,
                       <<Str("redirect_to"), Str("https://example.com")>>,
                       <<Str("permanent"), Str("yes")>> >>)>> >>)),
           YamlFile(".yaml", List(<<Str("a.ayy.fi")>>)),
           YamlFile(".txt", None),
           [ext |-> ".yaml", syntax_ok |-> FALSE, doc |-> None] }

ValidValue(host) ==
    Dict(<< <<Str("redirect_from"), List(<<Str(host)>>)>>,
            <<Str("redirect_to"), Str("https://example.com")>> >>)

\* Folders of several files range over these.
FilePool ==
    { YamlFile(".yaml", Dict(<< <<Str("k1"), ValidValue("a.ayy.fi")>> >>)),
      YamlFile(".yml",  Dict(<< <<Str("k2"), ValidValue("b.otax.fi")>> >>)),
      YamlFile(".yaml", Dict(<< <<Str("k2"), ValidValue("b.otax.fi")>>,
                                <<Str("k1"), ValidValue("a.ayy.fi")>> >>)),
      YamlFile(".yaml", Dict(<< <<Str("k3"), ValidValue("c.ayy.fi")>>,
                                <<Str("k1"), ValidValue("a.ayy.fi")>> >>)),
      YamlFile(".yaml", Dict(<< <<Str("k1"), ValidValue("a.example.com")>> >>)),
      YamlFile(".yaml", Dict(<< <<Str("k1"),
                                  Dict(<< <<Str("redirect_from"),
                                            List(<<Str("a.ayy.fi")>>)>> >>)>> >>)),
      YamlFile(".yaml", Dict(<< <<Str("k1"), PyInt(5)>> >>)),
      YamlFile(".yaml", Dict(<< <<Str("k1"),
                                  Dict(<< <<Str("redirect_from"), List(<<PyInt(5)>>)>>,
                                          <<Str("redirect_to"),
                                            Str("https://example.com")>> >>)>> >>)),
      YamlFile(".txt", None),
      [ext |-> ".yaml", syntax_ok |-> FALSE, doc |-> None] }

\* os.listdir names: pairwise different, the extension is the file's.
Listing(contents) ==
    [n \in 1..Len(contents) |->
        [name |-> "f" \o ToString(n) \o contents[n].ext,
         syntax_ok |-> contents[n].syntax_ok,
         doc |-> contents[n].doc]]

\* A folder holds up to MaxFiles files of FilePool, or one of OtherFiles, or
\* one file with a document of up to MaxRecords values of SubdomainValues.
IsFolder(listing) ==
    \/ \E m \in 0..MaxFiles : \E contents \in [1..m -> FilePool] :
          listing = Listing(contents)
    \/ \E file \in OtherFiles : listing = Listing(<<file>>)
    \/ \E m \in 1..MaxRecords : \E values \in [1..m -> SubdomainValues] :
          \E intkey \in BOOLEAN :
              listing = Listing(<<YamlFile(".yaml", Document(values, intkey))>>)

----------------------------------------------------------------------------
(* subdomain-linter.py, main *)

Error(tag, file, keys, files) ==
    [tag |-> tag, file |-> file, keys |-> keys, files |-> files]

Line(text, path, errors) == [text |-> text, path |-> path, errors |-> errors]

IsYaml(file_name) == EndsWith(file_name, ".yaml") \/ EndsWith(file_name, ".yml")

\* check_yaml_format, then check_business_rules, as the try block runs them
Validate(file) ==
    IF check_yaml_format(file) # Passed THEN check_yaml_format(file)
    ELSE check_business_rules(file)

LintIdle ==
    /\ folder = <<>> /\ idx = 0 /\ linting_errors = <<>> /\ keys_and_filename = <<>>
    /\ pc = "idle" /\ stdout = <<>> /\ exit_status = -1

NoOutcome == [raised |-> FALSE, duplicate_keys |-> {}, files |-> <<>>]

DupIdle == pairs_arg = <<>> /\ dup_called = FALSE /\ dup_outcome = NoOutcome

NotQueried == [kind |-> "not queried", rrset |-> <<>>]
NoQueries  == [a |-> NotQueried, aaaa |-> NotQueried]

DnsIdle ==
    /\ dns_pc = "idle" /\ target_ipv4_address = <<>> /\ target_ipv6_address = <<>>
    /\ subdomains = <<>> /\ results = <<>> /\ dns_stdout = <<>>
    /\ last_queries = NoQueries

Init ==
    /\ IsFolder(folder)
    /\ idx = 1
    /\ linting_errors = <<>>
    /\ keys_and_filename = <<>>
    /\ pc = "loop"
    /\ stdout = <<>>
    /\ exit_status = -1
    /\ DupIdle
    /\ DnsIdle

\* One iteration of the for loop of main.
ProcessFile ==
    /\ pc = "loop"
    /\ idx <= Len(folder)
    /\ LET file == folder[idx]
           outcome == Validate(file)
       IN  IF ~IsYaml(file.name)
           THEN /\ linting_errors' =
                      Append(linting_errors, Error("not_yaml", file.name, {}, <<>>))
                /\ idx' = idx + 1
                /\ UNCHANGED <<keys_and_filename, pc, stdout, exit_status>>
           ELSE IF outcome.res = "ok"
           THEN /\ keys_and_filename' =
                      Append(keys_and_filename, <<get_subdomain_key(file), file.name>>)
                /\ idx' = idx + 1
                /\ UNCHANGED <<linting_errors, pc, stdout, exit_status>>
           ELSE IF outcome.res = "lint"
           THEN /\ stdout' = Append(stdout, Line("Error in file: ", file.name, <<>>))
                /\ linting_errors' =
                      Append(linting_errors, Error(outcome.tag, file.name, {}, <<>>))
                /\ idx' = idx + 1
                /\ UNCHANGED <<keys_and_filename, pc, exit_status>>
           ELSE \* an exception that is no LintError leaves main: traceback, status 1
                /\ pc' = "crashed"
                /\ exit_status' = 1
                /\ UNCHANGED <<idx, linting_errors, keys_and_filename, stdout>>
    /\ UNCHANGED <<folder, dupVars, dnsVars>>

\* The try block around check_no_duplicate_keys, after the loop.
CheckDuplicates ==
    /\ pc = "loop"
    /\ idx > Len(folder)
    /\ LET outcome == check_no_duplicate_keys(keys_and_filename)
       IN  linting_errors' =
               IF outcome.raised
               THEN Append(linting_errors,
                           Error("duplicate", "", outcome.duplicate_keys, outcome.files))
               ELSE linting_errors
    /\ pc' = "report"
    /\ UNCHANGED <<folder, idx, keys_and_filename, stdout, exit_status, dupVars, dnsVars>>

\* Variant: the errors are printed but the status is that of success.
Report_StatusZero ==
    /\ pc = "report"
    /\ IF linting_errors # <<>>
       THEN stdout' = stdout \o << Line("Linting errors:", "", <<>>),
                                   Line("pprint", "", linting_errors) >>
       ELSE stdout' = Append(stdout, Line("No errors found", "", <<>>))
    /\ exit_status' = 0
    /\ pc' = "done"
    /\ UNCHANGED <<folder, idx, linting_errors, keys_and_filename, dupVars, dnsVars>>

\* The final if of main.
Report ==
    /\ pc = "report"
    /\ IF linting_errors # <<>>
       THEN /\ stdout' = stdout \o << Line("Linting errors:", "", <<>>),
                                       Line("pprint", "", linting_errors) >>
            /\ exit_status' = 1
       ELSE /\ stdout' = Append(stdout, Line("No errors found", "", <<>>))
            /\ exit_status' = 0
    /\ pc' = "done"
    /\ UNCHANGED <<folder, idx, linting_errors, keys_and_filename, dupVars, dnsVars>>

Next == ProcessFile \/ CheckDuplicates \/ Report

Spec == Init /\ [][Next]_vars

----------------------------------------------------------------------------
(* check_no_duplicate_keys on every list of pairs *)

MaxPairs == 4

PairKeys  == { Str("k1"), Str("k2"), Str("k3") }
PairFiles == { "f1.yaml", "f2.yaml", "f3.yml" }

PairLists == UNION { [1..m -> PairKeys \X PairFiles] : m \in 0..MaxPairs }

InitDup ==
    /\ pairs_arg \in PairLists
    /\ dup_called = FALSE
    /\ dup_outcome = NoOutcome
    /\ LintIdle
    /\ DnsIdle

CallCheckNoDuplicateKeys ==
    /\ ~dup_called
    /\ dup_called' = TRUE
    /\ dup_outcome' = check_no_duplicate_keys(pairs_arg)
    /\ UNCHANGED <<pairs_arg, lintVars, dnsVars>>

NextDup == CallCheckNoDuplicateKeys

SpecDup == InitDup /\ [][NextDup]_vars

----------------------------------------------------------------------------
(* dns-checker.py *)

TARGET_HOSTNAME == "jokeri.ayy.fi"

MaxHosts == 2        \* hostnames load_subdomains returns

IPv4Addresses == { "1.2.3.4", "9.9.9.9" }
IPv6Addresses == { "::1", "::2" }
Hostnames     == { "a.ayy.fi", "b.otax.fi" }

\* An answer is a non-empty RRset: its records in the order the resolver
\* returns them, no record twice.
Answers(addresses) ==
    { rrset \in UNION { [1..m -> addresses] : m \in 1..Cardinality(addresses) } :
        \A i, j \in 1..Len(rrset) : i # j => rrset[i] # rrset[j] }

Answer(rrset) == [kind |-> "answer", rrset |-> rrset]
Raises(exc)   == [kind |-> exc, rrset |-> <<>>]

\* What dns.resolver.query can do: return an answer, raise NXDOMAIN, raise
\* NoAnswer, or raise something else (Timeout, NoNameservers).
QueryOutcomes(addresses) ==
    { Answer(rrset) : rrset \in Answers(addresses) }
    \cup { Raises("NXDOMAIN"), Raises("NoAnswer"), Raises("Timeout") }

CheckResult(domain, ipv4, ipv6, fails) ==
    [domain |-> domain, ipv4 |-> ipv4, ipv6 |-> ipv6, fails |-> fails, raised |-> "none"]

Propagates(domain, exc) ==
    [domain |-> domain, ipv4 |-> FALSE, ipv6 |-> FALSE, fails |-> <<>>, raised |-> exc]

\* query_a and query_aaaa are what the two queries for domain do; the AAAA
\* query is only made when the A query returned.
ExceptResult(domain, exc) ==
    IF exc = "NXDOMAIN" THEN CheckResult(domain, FALSE, FALSE, <<"NXDOMAIN">>)
    ELSE IF exc = "NoAnswer" THEN CheckResult(domain, FALSE, FALSE, <<"NO_ANSWER">>)
    ELSE Propagates(domain, exc)

\* Variant: an exception of the AAAA query keeps what the A comparison found.
check_dns_record_KeepsA(domain, target_ipv4, target_ipv6, query_a, query_aaaa) ==
    IF query_a.kind # "answer" THEN ExceptResult(domain, query_a.kind)
    ELSE LET ipv4_success == query_a.rrset[1] = target_ipv4[1]
             fails4 == IF ipv4_success THEN <<>> ELSE <<"INCORRECT_IPv4">>
             except == ExceptResult(domain, query_aaaa.kind)
         IN  IF query_aaaa.kind # "answer"
             THEN [except EXCEPT !.ipv4 = ipv4_success, !.fails = fails4 \o @]
             ELSE LET ipv6_success == query_aaaa.rrset[1] = target_ipv6[1]
                      fails6 == IF ipv6_success THEN <<>> ELSE <<"INCORRECT_IPv6">>
                  IN  CheckResult(domain, ipv4_success, ipv6_success, fails4 \o fails6)

\* Variant: the AAAA answer is compared with the target's A address.
check_dns_record_WrongTarget(domain, target_ipv4, target_ipv6, query_a, query_aaaa) ==
    IF query_a.kind # "answer" THEN ExceptResult(domain, query_a.kind)
    ELSE LET ipv4_success == query_a.rrset[1] = target_ipv4[1]
             fails4 == IF ipv4_success THEN <<>> ELSE <<"INCORRECT_IPv4">>
         IN  IF query_aaaa.kind # "answer" THEN ExceptResult(domain, query_aaaa.kind)
             ELSE LET ipv6_success == query_aaaa.rrset[1] = target_ipv4[1]
                      fails6 == IF ipv6_success THEN <<>> ELSE <<"INCORRECT_IPv6">>
                  IN  CheckResult(domain, ipv4_success, ipv6_success, fails4 \o fails6)

check_dns_record(domain, target_ipv4, target_ipv6, query_a, query_aaaa) ==
    IF query_a.kind # "answer" THEN ExceptResult(domain, query_a.kind)
    ELSE LET ipv4_success == query_a.rrset[1] = target_ipv4[1]
             fails4 == IF ipv4_success THEN <<>> ELSE <<"INCORRECT_IPv4">>
         IN  IF query_aaaa.kind # "answer" THEN ExceptResult(domain, query_aaaa.kind)
             ELSE LET ipv6_success == query_aaaa.rrset[1] = target_ipv6[1]
                      fails6 == IF ipv6_success THEN <<>> ELSE <<"INCORRECT_IPv6">>
                  IN  CheckResult(domain, ipv4_success, ipv6_success, fails4 \o fails6)

InList(x, list) == \E n \in 1..Len(list) : list[n] = x

DnsLine(text, domain, target) == [text |-> text, domain |-> domain, target |-> target]

\* The lines print_fix_instructions prints for one element of fails.
FixLines(fail, target_cname) ==
    << DnsLine("host", fail.domain, "") >>
    \o (IF InList("NXDOMAIN", fail.fails)
        THEN << DnsLine("create CNAME", fail.domain, target_cname) >> ELSE <<>>)
    \o (IF InList("INCORRECT_IPv4", fail.fails)
        THEN << DnsLine("change ipv4", fail.domain, TARGET_HOSTNAME) >> ELSE <<>>)
    \o (IF InList("INCORRECT_IPv6", fail.fails)
        THEN << DnsLine("change ipv6", fail.domain, TARGET_HOSTNAME) >> ELSE <<>>)

RECURSIVE FixLinesOfAll(_, _)
FixLinesOfAll(fails, target_cname) ==
    IF fails = <<>> THEN <<>>
    ELSE FixLines(Head(fails), target_cname) \o FixLinesOfAll(Tail(fails), target_cname)

print_fix_instructions(fails, target_cname) ==
    << DnsLine("Fix instructions:", "", "") >> \o FixLinesOfAll(fails, target_cname)

InitDns ==
    /\ dns_pc = "resolve"
    /\ target_ipv4_address = <<>>
    /\ target_ipv6_address = <<>>
    /\ subdomains = <<>>
    /\ results = <<>>
    /\ last_queries = NoQueries
    /\ dns_stdout = <<>>
    /\ LintIdle
    /\ DupIdle

\* The two queries for TARGET_HOSTNAME and the two prints of the addresses.
ResolveTarget ==
    /\ dns_pc = "resolve"
    /\ \E query_a \in QueryOutcomes(IPv4Addresses),
          query_aaaa \in QueryOutcomes(IPv6Addresses) :
          IF query_a.kind = "answer" /\ query_aaaa.kind = "answer"
          THEN /\ target_ipv4_address' = query_a.rrset
               /\ target_ipv6_address' = query_aaaa.rrset
               /\ dns_stdout' =
                      << DnsLine("Target IPv4 address", query_a.rrset[1], ""),
                         DnsLine("Target IPv6 address", query_aaaa.rrset[1], "") >>
               /\ dns_pc' = "load"
          ELSE /\ dns_pc' = "crashed"
               /\ UNCHANGED <<target_ipv4_address, target_ipv6_address, dns_stdout>>
    /\ UNCHANGED <<subdomains, results, last_queries, lintVars, dupVars>>

\* load_subdomains: the redirect_from entries of the files, file by file.
LoadSubdomains ==
    /\ dns_pc = "load"
    /\ subdomains' \in UNION { [1..m -> Hostnames] : m \in 0..MaxHosts }
    /\ dns_pc' = "check"
    /\ UNCHANGED <<target_ipv4_address, target_ipv6_address, results, last_queries,
                   dns_stdout, lintVars, dupVars>>

\* One iteration of the loop over subdomains.
CheckNextSubdomain ==
    /\ dns_pc = "check"
    /\ Len(results) < Len(subdomains)
    /\ \E query_a \in QueryOutcomes(IPv4Addresses),
          query_aaaa \in QueryOutcomes(IPv6Addresses) :
          LET result == check_dns_record(subdomains[Len(results) + 1],
                                         target_ipv4_address, target_ipv6_address,
                                         query_a, query_aaaa)
          IN  /\ last_queries' =
                    [a |-> query_a,
                     aaaa |-> IF query_a.kind = "answer" THEN query_aaaa ELSE NotQueried]
              /\ IF result.raised = "none"
                 THEN /\ results' = Append(results, result)
                      /\ UNCHANGED dns_pc
                 ELSE /\ dns_pc' = "crashed"
                      /\ UNCHANGED results
    /\ UNCHANGED <<target_ipv4_address, target_ipv6_address, subdomains, dns_stdout,
                   lintVars, dupVars>>

\* The call of print_fix_instructions with all the results.
PrintFixInstructions ==
    /\ dns_pc = "check"
    /\ Len(results) = Len(subdomains)
    /\ dns_stdout' = dns_stdout \o print_fix_instructions(results, TARGET_HOSTNAME)
    /\ dns_pc' = "done"
    /\ UNCHANGED <<target_ipv4_address, target_ipv6_address, subdomains, results,
                   last_queries, lintVars, dupVars>>

NextDns == ResolveTarget \/ LoadSubdomains \/ CheckNextSubdomain \/ PrintFixInstructions

SpecDns == InitDns /\ [][NextDns]_vars

----------------------------------------------------------------------------
(* Properties of the linter *)

FileNamed(name) == folder[CHOOSE n \in 1..Len(folder) : folder[n].name = name]

\* The files the loop body has been run on, the one it crashed on included.
Handled ==
    { n \in 1..Len(folder) : n < idx \/ (pc = "crashed" /\ n = idx) }

ErrorsOf(name) == { n \in 1..Len(linting_errors) : linting_errors[n].file = name }
PairsOf(name)  == { n \in 1..Len(keys_and_filename) : keys_and_filename[n][2] = name }

PerFileErrors ==
    { n \in 1..Len(linting_errors) : linting_errors[n].tag # "duplicate" }
DuplicateErrors ==
    { n \in 1..Len(linting_errors) : linting_errors[n].tag = "duplicate" }

Printed(text) == \E n \in 1..Len(stdout) : stdout[n].text = text

\* The schema as the specification states it, for one parsed document.
SchemaFields == { "redirect_from", "redirect_to", "include_path", "permanent" }

OfDeclaredType(field, value) ==
    CASE field = "redirect_from" ->
            value.t = "list" /\ \A n \in 1..Len(value.v) : value.v[n].t = "str"
      [] field = "redirect_to" -> value.t = "str"
      [] OTHER -> value.t = "bool"

AllowedSuffix(host) == EndsWith(host, ".ayy.fi") \/ EndsWith(host, ".otax.fi")

RecordSatisfiesSchema(value) ==
    /\ value.t = "dict"
    /\ \A n \in 1..Len(value.v) :
          /\ value.v[n][1].t = "str"
          /\ value.v[n][1].v \in SchemaFields
          /\ OfDeclaredType(value.v[n][1].v, value.v[n][2])
    /\ HasKey(value.v, Str("redirect_from"))
    /\ HasKey(value.v, Str("redirect_to"))
    /\ \A n \in 1..Len(GetItem(value.v, Str("redirect_from")).v) :
          AllowedSuffix(GetItem(value.v, Str("redirect_from")).v[n].v)
    /\ StartsWith(GetItem(value.v, Str("redirect_to")).v, "http")

SatisfiesSchema(file) ==
    /\ file.syntax_ok
    /\ file.doc.t = "dict"
    /\ Len(file.doc.v) >= 1
    /\ \A n \in 1..Len(file.doc.v) :
          /\ file.doc.v[n][1].t = "str"
          /\ RecordSatisfiesSchema(file.doc.v[n][2])

\* A record with a redirect_from entry that is a string without an allowed
\* suffix, or a record without redirect_to.
HasWrongSuffix(value) ==
    /\ value.t = "dict"
    /\ HasKey(value.v, Str("redirect_from"))
    /\ GetItem(value.v, Str("redirect_from")).t = "list"
    /\ \E n \in 1..Len(GetItem(value.v, Str("redirect_from")).v) :
          LET entry == GetItem(value.v, Str("redirect_from")).v[n]
          IN  entry.t = "str" /\ ~AllowedSuffix(entry.v)

MissesRedirectTo(value) ==
    value.t = "dict" /\ ~HasKey(value.v, Str("redirect_to"))

WrongSuffixOrNoRedirectTo(file) ==
    /\ file.syntax_ok
    /\ file.doc.t = "dict"
    /\ \E n \in 1..Len(file.doc.v) :
          HasWrongSuffix(file.doc.v[n][2]) \/ MissesRedirectTo(file.doc.v[n][2])

\* C1: main prints "No errors found" and exits with status 0 exactly when the
\* run recorded no error at all, that is when every file of the folder is a
\* YAML file that passes validation and no key is duplicated among the
\* collected pairs; every other run that reaches the report prints the
\* accumulated errors and exits with status 1.
C1_ExitStatusReflectsAllErrors ==
    pc = "done" =>
        LET clean ==
                /\ \A n \in 1..Len(folder) :
                      IsYaml(folder[n].name) /\ Validate(folder[n]).res = "ok"
                /\ \A n, m \in 1..Len(keys_and_filename) :
                      n # m => keys_and_filename[n][1] # keys_and_filename[m][1]
        IN  /\ clean <=> linting_errors = <<>>
            /\ clean <=> exit_status = 0
            /\ clean <=> Printed("No errors found")
            /\ ~clean <=> exit_status = 1
            /\ ~clean <=> Printed("Linting errors:")
            /\ ~clean => stdout[Len(stdout)].errors = linting_errors

\* A run that reports a per-file error and a duplicate-key error together.
C1_Witness ==
    /\ pc = "done"
    /\ exit_status = 1
    /\ PerFileErrors # {}
    /\ DuplicateErrors # {}

\* C2: one bad file never aborts the run: main is never ended by an exception
\* of a file, and every file the loop has handled that is not a YAML file
\* passing validation has a diagnostic in linting_errors.
C2_BadFileNeverAborts ==
    /\ pc # "crashed"
    /\ \A n \in Handled :
          (~IsYaml(folder[n].name) \/ ~SatisfiesSchema(folder[n]))
              => ErrorsOf(folder[n].name) # {}

\* The top-level keys of the files that passed validation.
TopLevelKeys(file) == { file.doc.v[n][1] : n \in 1..Len(file.doc.v) }

PassedFiles ==
    { n \in 1..Len(folder) :
        IsYaml(folder[n].name) /\ Validate(folder[n]).res = "ok" }

\* C3: once the duplicate-key check has run, every key that is a top-level
\* key (first or later) of more than one file that passed validation is
\* flagged by a duplicate-key error.
C3_EveryTopLevelKeyChecked ==
    pc \in {"report", "done"} =>
        \A n, m \in PassedFiles :
            n # m =>
                \A key \in TopLevelKeys(folder[n]) \cap TopLevelKeys(folder[m]) :
                    \E e \in DuplicateErrors : key \in linting_errors[e].keys

C9_OneErrorOrOnePairPerFile ==
    /\ \A n \in Handled :
          IF IsYaml(folder[n].name) /\ SatisfiesSchema(folder[n])
          THEN /\ ErrorsOf(folder[n].name) = {}
               /\ Cardinality(PairsOf(folder[n].name)) = 1
          ELSE /\ Cardinality(ErrorsOf(folder[n].name)) = 1
               /\ PairsOf(folder[n].name) = {}
    /\ pc \in {"report", "done"} =>
          Cardinality(PerFileErrors) + Len(keys_and_filename) = Len(folder)

\* The rule, in the numbering of the validator's contract, that an error is for.
RuleOf(tag) ==
    CASE tag = "yaml" -> 1
      [] tag \in {"not_dict", "no_keys", "key_not_string"} -> 2
      [] tag \in {"not_valid_key", "wrong_type", "required"} -> 3
      [] tag = "suffix" -> 4
      [] tag = "url" -> 5
      [] OTHER -> 0

\* Whether a record violates rule 3, 4 or 5 as the validator implements it.
RecordViolates(rule, value) ==
    /\ value.t = "dict"
    /\ CASE rule = 3 ->
              \/ \E n \in 1..Len(value.v) :
                    \/ ~InSchema(value.v[n][1])
                    \/ value.v[n][2].t # SchemaType(value.v[n][1])
              \/ ~HasKey(value.v, Str("redirect_from"))
              \/ ~HasKey(value.v, Str("redirect_to"))
         [] rule = 4 -> HasWrongSuffix(value)
         [] rule = 5 ->
              /\ HasKey(value.v, Str("redirect_to"))
              /\ GetItem(value.v, Str("redirect_to")).t = "str"
              /\ ~StartsWith(GetItem(value.v, Str("redirect_to")).v, "http")
         [] OTHER -> FALSE

DocumentViolatesShape(file) ==
    \/ file.doc.t # "dict"
    \/ Len(file.doc.v) = 0
    \/ \E n \in 1..Len(file.doc.v) : file.doc.v[n][1].t # "str"

Min(S) == CHOOSE x \in S : \A y \in S : x <= y

\* The rules a file violates, any of its records counting for rules 3 to 5.
RulesViolated(file) ==
    IF ~file.syntax_ok THEN {1}
    ELSE IF DocumentViolatesShape(file) THEN {2}
    ELSE { rule \in 3..5 :
             \E n \in 1..Len(file.doc.v) : RecordViolates(rule, file.doc.v[n][2]) }

\* The rules violated by the first record of the file that violates any.
RulesViolatedByFirstBadRecord(file) ==
    IF ~file.syntax_ok THEN {1}
    ELSE IF DocumentViolatesShape(file) THEN {2}
    ELSE LET bad == { n \in 1..Len(file.doc.v) :
                        \E rule \in 3..5 : RecordViolates(rule, file.doc.v[n][2]) }
         IN  IF bad = {} THEN {}
             ELSE { rule \in 3..5 : RecordViolates(rule, file.doc.v[Min(bad)][2]) }

ValidationErrors ==
    { n \in 1..Len(linting_errors) : RuleOf(linting_errors[n].tag) # 0 }

\* C10 as stated: the error reported for a file is for the lowest-numbered
\* rule that the file, in any of its records, violates.
C10_LowestRuleOfTheFile ==
    \A e \in ValidationErrors :
        LET file == FileNamed(linting_errors[e].file)
        IN  /\ RulesViolated(file) # {}
            /\ RuleOf(linting_errors[e].tag) = Min(RulesViolated(file))

\* C10 amended: syntax and document shape are checked for the whole file
\* first; rules 3, 4 and 5 are then checked record by record, so the error
\* reported for a file is for the lowest-numbered rule violated by the first
\* record, in document order, that violates any rule.
C10_LowestRuleOfFirstBadRecord ==
    \A e \in ValidationErrors :
        LET file == FileNamed(linting_errors[e].file)
        IN  /\ RulesViolatedByFirstBadRecord(file) # {}
            /\ RuleOf(linting_errors[e].tag) = Min(RulesViolatedByFirstBadRecord(file))

\* A reported file whose first bad record violates rules 4 and 5, after a
\* record that violates nothing.
C10_Witness ==
    \E e \in ValidationErrors :
        LET file == FileNamed(linting_errors[e].file)
        IN  /\ file.syntax_ok
            /\ ~DocumentViolatesShape(file)
            /\ Len(file.doc.v) >= 2
            /\ \A rule \in 3..5 : ~RecordViolates(rule, file.doc.v[1][2])
            /\ RecordViolates(4, file.doc.v[2][2])
            /\ RecordViolates(5, file.doc.v[2][2])
            /\ linting_errors[e].tag = "suffix"

----------------------------------------------------------------------------
(* Properties of check_no_duplicate_keys *)

Occurrences(key) ==
    Cardinality({ n \in 1..Len(pairs_arg) : pairs_arg[n][1] = key })

DuplicatedPairs == { n \in 1..Len(pairs_arg) : Occurrences(pairs_arg[n][1]) > 1 }

\* C4: the call raises exactly when some key occurs more than once; the error
\* then names each key that occurs more than once, and its file list holds,
\* in order, the filename of every pair whose key occurs more than once and
\* no filename of another pair.
C4_AllFilesOfDuplicatedKeys ==
    dup_called =>
        /\ dup_outcome.raised <=> DuplicatedPairs # {}
        /\ dup_outcome.duplicate_keys = { pairs_arg[n][1] : n \in DuplicatedPairs }
        /\ Len(dup_outcome.files) = Cardinality(DuplicatedPairs)
        /\ \A n \in DuplicatedPairs : InList(pairs_arg[n][2], dup_outcome.files)
        /\ \A m \in 1..Len(dup_outcome.files) :
              \E n \in DuplicatedPairs : pairs_arg[n][2] = dup_outcome.files[m]

\* A key declared by three files next to a key declared once.
C4_Witness ==
    /\ dup_called
    /\ dup_outcome.raised
    /\ \E n \in 1..Len(pairs_arg) : Occurrences(pairs_arg[n][1]) = 3
    /\ \E n \in 1..Len(pairs_arg) : Occurrences(pairs_arg[n][1]) = 1
    /\ Len(dup_outcome.files) = 3

----------------------------------------------------------------------------
(* Properties of the DNS checker *)

LastResult == results[Len(results)]

\* A result has been appended for the subdomain last_queries is about.
LastChecked == dns_pc \in {"check", "done"} /\ results # <<>>

Reported(exc) ==
    \/ last_queries.a.kind = exc
    \/ last_queries.a.kind = "answer" /\ last_queries.aaaa.kind = exc

C6_FamiliesClassifiedIndependently ==
    (LastChecked /\ last_queries.a.kind = "answer" /\ last_queries.aaaa.kind = "answer") =>
        LET same4 == last_queries.a.rrset[1] = target_ipv4_address[1]
            same6 == last_queries.aaaa.rrset[1] = target_ipv6_address[1]
        IN  /\ LastResult.ipv4 <=> same4
            /\ LastResult.ipv6 <=> same6
            /\ InList("INCORRECT_IPv4", LastResult.fails) <=> ~same4
            /\ InList("INCORRECT_IPv6", LastResult.fails) <=> ~same6
            /\ LastResult.fails = <<>> <=> (LastResult.ipv4 /\ LastResult.ipv6)
            /\ \A n \in 1..Len(LastResult.fails) :
                  LastResult.fails[n] \in {"INCORRECT_IPv4", "INCORRECT_IPv6"}

\* The A answer differs from the target in its first address only where the
\* AAAA answer matches: INCORRECT_IPv4 alone.
C6_Witness ==
    /\ LastChecked
    /\ last_queries.a.kind = "answer" /\ last_queries.aaaa.kind = "answer"
    /\ Len(last_queries.a.rrset) = 2
    /\ last_queries.a.rrset[1] # target_ipv4_address[1]
    /\ last_queries.a.rrset[2] = target_ipv4_address[1]
    /\ LastResult.fails = <<"INCORRECT_IPv4">>
    /\ LastResult.ipv6

CorrectlyConfigured(result) == result.fails = <<>> /\ result.ipv4 /\ result.ipv6

Failing(result) == ~CorrectlyConfigured(result)

\* C7: the report holds only the failing hosts: after the header, for each
\* result that is not correctly configured, in order, its host line and one
\* remediation line per reason among NXDOMAIN, INCORRECT_IPv4, INCORRECT_IPv6;
\* nothing for a correctly configured host.
C7_OnlyFailingHostsPrinted ==
    dns_pc = "done" =>
        SubSeq(dns_stdout, 3, Len(dns_stdout)) =
            << DnsLine("Fix instructions:", "", "") >>
            \o FixLinesOfAll(SelectSeq(results, Failing), TARGET_HOSTNAME)

====
